---- MODULE Spec2Model ----
(***************************************************************************)
(* Model of the rigol_dp932a host library: Channel, OverProtectiveParent,  *)
(* AnalyzerAPI and RigolDP932A, driving one device through one SCPI        *)
(* transport.  A single caller thread runs one operation at a time; every  *)
(* action is one transport call of the operation together with the control *)
(* flow that follows it in the source.  Every transport call may raise; a   *)
(* call that raises is recorded as handed to the transport and leaves the  *)
(* device as it was.  The device holds the settings the library reads      *)
(* back: analyzer run state, logging and type, brightness and beeper.      *)
(*                                                                         *)
(* Set-points and thresholds are held in thousandths (5000 is 5.0).        *)
(***************************************************************************)
EXTENDS Integers, Sequences, FiniteSets, TLC

\* ---------------------------------------------------------------- bounds
\* transport calls that may raise in one run
MaxFailures == 2
\* calls the body of a scoped session makes before it returns or raises
MaxBodySteps == 2

\* ------------------------------------------------------------ input sets
Channels == 1 .. 3
Protecting == {"CURRent", "VOLTage"}
OutputValues == {<<5000, 1000>>, <<12345, 50>>}
LevelValues == {1500, 30000}
BrightnessValues == {10, 50, 100}
ModeReplies == {"CV", "CC", "UR"}
BodyErrors == {"BodyError", "KeyboardInterrupt"}
PulseConfigs == {<<TRUE, TRUE>>, <<TRUE, FALSE>>, <<FALSE, TRUE>>, <<FALSE, FALSE>>}
CommonConfigs ==
    {<<"V", "C", "P">>, <<"None", "P", "None">>, <<"V", "None", "C">>,
     <<"None", "None", "None">>}

\* tokens `CH<i>_<TYPE>` a common-measure response is made of
ReplyTokens == (1 .. 4) \X {"V", "C", "P"}
\* the token lists of the responses to `:ANALyzer:COMMon:MEASure:TYPE?`
CommonReplies ==
    {<<t>> : t \in ReplyTokens}
    \cup {<<t, u>> : t \in ReplyTokens, u \in ReplyTokens}
    \cup {<< <<1, "V">>, <<2, "C">>, <<3, "P">> >>,
          << <<1, "V">>, <<4, "V">>, <<2, "C">> >>,
          << <<3, "P">>, <<2, "V">>, <<3, "C">> >>}

\* first and third field of the responses to the startup handshake
ErrorFields ==
    {<<"0,\"No error\"">>, <<"0,\"No error\"", " ">>,
     <<"-113,\"Undefined header\"">>}
TestFields == {<<"0">>, <<"0", "\n">>, <<"1">>}
\* errors a failing transport call raises in the constructor
FailureKinds == {"SCPIError", "OSError"}

\* set-points written and read back: voltages and currents in thousandths
RoundTripVoltages == {0, 1, 99, 1000, 12345, 32999}
RoundTripCurrents == {0, 50, 3210}

\* log file paths
FileNames == {"C:/log.csv", "D:/run.csv"}

\* ------------------------------------------------------- pure functions
\* the three fractional digits of f"{value:.3f}"
Pad3(n) ==
    IF n < 10 THEN "00" \o ToString(n)
    ELSE IF n < 100 THEN "0" \o ToString(n)
    ELSE ToString(n)

Format3_noPad(m) == ToString(m \div 1000) \o "." \o ToString(m % 1000)
\* f"{value:.3f}" of a non-negative value given in thousandths
Format3(m) == ToString(m \div 1000) \o "." \o Pad3(m % 1000)

RECURSIVE Join(_, _)
\* sep.join(parts)
Join(sep, parts) ==
    IF parts = <<>> THEN ""
    ELSE IF Len(parts) = 1 THEN parts[1]
    ELSE parts[1] \o sep \o Join(sep, Tail(parts))

\* truth value Python gives a str in a conditional expression
StrTruthy(s) == s # ""

\* ------------------------------------------ response texts and parsing
\* A response text is a sequence of pieces: every separator, blank and
\* digit of a number is a piece of its own, any other run of characters is
\* one piece.
Digit == {"0", "1", "2", "3", "4", "5", "6", "7", "8", "9"}
DigitVal(c) == CHOOSE d \in 0 .. 9 : ToString(d) = c

RECURSIVE Digits(_)
\* the decimal digits of a natural number
Digits(n) == IF n < 10 THEN <<ToString(n)>>
             ELSE Digits(n \div 10) \o <<ToString(n % 10)>>

\* f"{value:.3f}" piece by piece, of a non-negative value in thousandths
Format3Text(m) ==
    Digits(m \div 1000) \o <<".">>
        \o <<ToString((m % 1000) \div 100), ToString((m % 100) \div 10),
             ToString(m % 10)>>

RECURSIVE Number(_)
\* the value of a run of digits
Number(ds) == IF ds = <<>> THEN 0
              ELSE Number(SubSeq(ds, 1, Len(ds) - 1)) * 10 + DigitVal(ds[Len(ds)])

\* position of the first piece equal to sep, 0 when there is none
Find(text, sep) ==
    IF \E k \in 1 .. Len(text) : text[k] = sep
    THEN CHOOSE k \in 1 .. Len(text) :
            text[k] = sep /\ \A j \in 1 .. k - 1 : text[j] # sep
    ELSE 0

RECURSIVE Split(_, _)
\* text.split(sep)
Split(text, sep) ==
    LET k == Find(text, sep)
    IN  IF k = 0 THEN <<text>>
        ELSE <<SubSeq(text, 1, k - 1)>> \o Split(SubSeq(text, k + 1, Len(text)), sep)

\* text.split(sep, maxsplit=1)
SplitOnce(text, sep) ==
    LET k == Find(text, sep)
    IN  IF k = 0 THEN <<text>>
        ELSE <<SubSeq(text, 1, k - 1), SubSeq(text, k + 1, Len(text))>>

Blank == {" ", "\n"}
RECURSIVE Strip(_)
\* text.strip()
Strip(text) ==
    IF text = <<>> THEN text
    ELSE IF text[1] \in Blank THEN Strip(Tail(text))
    ELSE IF text[Len(text)] \in Blank THEN Strip(SubSeq(text, 1, Len(text) - 1))
    ELSE text

\* float(text) accepts the text: digits, optionally a point and up to three
\* more digits (the values that are whole thousandths)
IsFloatText(text) ==
    LET k == Find(text, ".")
        whole == IF k = 0 THEN text ELSE SubSeq(text, 1, k - 1)
        frac == IF k = 0 THEN <<>> ELSE SubSeq(text, k + 1, Len(text))
    IN  /\ whole # <<>>
        /\ \A j \in 1 .. Len(whole) : whole[j] \in Digit
        /\ \A j \in 1 .. Len(frac) : frac[j] \in Digit
        /\ Len(frac) <= 3

ParseFloat_truncating(text) ==
    LET k == Find(text, ".")
    IN  Number(IF k = 0 THEN text ELSE SubSeq(text, 1, k - 1)) * 1000
\* float(text), in thousandths
ParseFloat(text) ==
    LET k == Find(text, ".")
        whole == IF k = 0 THEN text ELSE SubSeq(text, 1, k - 1)
        frac == IF k = 0 THEN <<>> ELSE SubSeq(text, k + 1, Len(text))
        scale == CASE Len(frac) = 0 -> 1000 [] Len(frac) = 1 -> 100
                   [] Len(frac) = 2 -> 10 [] OTHER -> 1
    IN  Number(whole) * 1000 + Number(frac) * scale

OnOff(value) == IF value THEN "ON" ELSE "OFF"
OneZero(value) == IF value THEN "1" ELSE "0"

\* ---- channel.py command texts
source_id(channel) == ":SOURCe[" \o ToString(channel) \o "]"
ProtClearCmd(channel, protecting) ==
    source_id(channel) \o ":" \o protecting \o ":PROT:CLE"
ProtLevelCmd_unformatted(channel, protecting, value) ==
    source_id(channel) \o ":" \o protecting \o ":PROT " \o ToString(value)
ProtLevelCmd(channel, protecting, value) ==
    source_id(channel) \o ":" \o protecting \o ":PROT " \o Format3(value)
ProtStateCmd(channel, protecting, value) ==
    source_id(channel) \o ":" \o protecting \o ":PROT:STAT " \o OnOff(value)
ApplCmd(channel, output) ==
    ":APPL CH" \o ToString(channel) \o "," \o Format3(output[1]) \o ","
        \o Format3(output[2])
\* the two set-point fields of that command, piece by piece
ApplTexts(output) == <<Format3Text(output[1]), Format3Text(output[2])>>
ProbeCmd(channel) == "MEAS:ALL? CH" \o ToString(channel)
EnabledCmd(channel, value) ==
    ":OUTP CH" \o ToString(channel) \o "," \o OnOff(value)
OutputQuery(channel) == ":APPL? CH" \o ToString(channel)

\* the parsing of Channel.output: the two set-points in thousandths, or the
\* error the unpacking or float() raises
OutputFromResponse(response) ==
    LET halves == SplitOnce(response, ":")
        fields == Split(halves[2], ",")
    IN  IF Len(halves) # 2 THEN [error |-> "ValueError", value |-> <<>>]
        ELSE IF Len(fields) # 3 THEN [error |-> "ValueError", value |-> <<>>]
        ELSE IF ~IsFloatText(fields[2]) \/ ~IsFloatText(fields[3])
        THEN [error |-> "ValueError", value |-> <<>>]
        ELSE [error |-> "none",
              value |-> <<ParseFloat(fields[2]), ParseFloat(fields[3])>>]

OutputModeQuery(channel) == ":OUTP:MODE? CH" \o ToString(channel)

\* class OutputMode(Enum): members in definition order
OutputModeMembers ==
    << [name |-> "ConstantVoltage", value |-> "CV"],
       [name |-> "ConstantCurrent", value |-> "CV"],
       [name |-> "Unregulated", value |-> "UR"] >>

\* OutputMode(text): the first member defined with that value (a later
\* member with an equal value is an alias of it); "ValueError" when none
OutputMode(text) ==
    LET hits == {k \in 1 .. Len(OutputModeMembers) :
                    OutputModeMembers[k].value = text}
    IN  IF hits = {} THEN "ValueError"
        ELSE OutputModeMembers[CHOOSE k \in hits : \A j \in hits : k <= j].name

\* ---- analyzer.py command texts
LogQuery == ":ANALyzer:SAVE:STATe?"
LogCmd(enabled) == ":ANALyzer:SAVE:STATe " \o OneZero(enabled)
ActiveQuery == ":ANALyzer:STATe?"
ActiveCmd_stuckOn(enabled) == ":ANALyzer:STATe 1"
ActiveCmd(enabled) == ":ANALyzer:STATe " \o OneZero(enabled)
TypeCmd_alwaysCommon(value) == ":ANALyzer:TYPE COM"
TypeCmd(value) == ":ANALyzer:TYPE " \o value
TypeQuery == ":ANALyzer:TYPE?"
FileQuery == ":ANALyzer:SAVE:ROUTe?"
FileCmd(file) == ":ANALyzer:SAVE:ROUTe " \o file

\* class AnalysisType(Enum)
AnalysisTypeMembers ==
    << [name |-> "Common", value |-> "COM"],
       [name |-> "PulseCurrent", value |-> "CURR"] >>
\* analysis_type.value
AnalysisTypeValue(name) ==
    AnalysisTypeMembers[CHOOSE k \in 1 .. Len(AnalysisTypeMembers) :
                            AnalysisTypeMembers[k].name = name].value
\* AnalysisType(text): the member with that value, else "ValueError"
AnalysisType(text) ==
    LET hits == {k \in 1 .. Len(AnalysisTypeMembers) :
                    AnalysisTypeMembers[k].value = text}
    IN  IF hits = {} THEN "ValueError"
        ELSE AnalysisTypeMembers[CHOOSE k \in hits : TRUE].name

\* the analysis type of the instrument after it accepted a command
TypeAfter(cmd, current) ==
    IF cmd = ":ANALyzer:TYPE COM" THEN "COM"
    ELSE IF cmd = ":ANALyzer:TYPE CURR" THEN "CURR"
    ELSE current

RECURSIVE CommonParts(_, _)
\* cmd_parts of set_common_measure, from channel i on
CommonParts(config, i) ==
    IF i > Len(config) THEN <<>>
    ELSE (IF config[i] # "None"
          THEN <<"CH" \o ToString(i) \o "_" \o config[i]>> ELSE <<>>)
         \o CommonParts(config, i + 1)
CommonMeasureCmd_spaceJoined(config) ==
    ":ANALyzer:COMMon:MEASure:TYPE " \o Join(" ", CommonParts(config, 1))
CommonMeasureCmd(config) ==
    ":ANALyzer:COMMon:MEASure:TYPE " \o Join(",", CommonParts(config, 1))

RECURSIVE PulseParts(_, _)
PulseParts(config, i) ==
    IF i > Len(config) THEN <<>>
    ELSE (IF config[i] THEN <<"CH" \o ToString(i)>> ELSE <<>>)
         \o PulseParts(config, i + 1)
CurrentMeasureCmd(config) ==
    ":ANALyzer:CURRent:MEASure:TYPE " \o Join(",", PulseParts(config, 1))
AnyEnabled_lenient(config) == TRUE
\* any([config.ch1, config.ch2])
AnyEnabled(config) == \E i \in 1 .. Len(config) : config[i]

CommonMeasureQuery == ":ANALyzer:COMMon:MEASure:TYPE?"

\* class CommonAnalysisType(Enum)
CommonAnalysisTypeMembers ==
    << [name |-> "Voltage", value |-> "V"],
       [name |-> "Current", value |-> "C"],
       [name |-> "Power", value |-> "P"] >>
\* CommonAnalysisType(text): the member with that value, else "ValueError"
CommonAnalysisType(text) ==
    LET hits == {k \in 1 .. Len(CommonAnalysisTypeMembers) :
                    <<CommonAnalysisTypeMembers[k].value>> = text}
    IN  IF hits = {} THEN "ValueError"
        ELSE CommonAnalysisTypeMembers[CHOOSE k \in hits : TRUE].name

ChannelSlot_catchAll(channel) ==
    CASE channel = <<"CH1">> -> 1
      [] channel = <<"CH2">> -> 2
      [] OTHER -> 3
\* the if / elif chain of get_common_measure: the field of the result a
\* channel tag selects, 0 for the else branch
ChannelSlot(channel) ==
    CASE channel = <<"CH1">> -> 1
      [] channel = <<"CH2">> -> 2
      [] channel = <<"CH3">> -> 3
      [] OTHER -> 0

RECURSIVE ParseItems(_, _)
\* the loop `for item in response.split(" ")` of get_common_measure
ParseItems(items, result) ==
    IF items = <<>> THEN [error |-> "none", value |-> result]
    ELSE LET parts == Split(items[1], "_")
         IN  IF Len(parts) # 2 THEN [error |-> "ValueError", value |-> result]
             ELSE IF ChannelSlot(parts[1]) = 0
             THEN [error |-> "AssertionError", value |-> result]
             ELSE IF CommonAnalysisType(parts[2]) = "ValueError"
             THEN [error |-> "ValueError", value |-> result]
             ELSE ParseItems(Tail(items),
                     [result EXCEPT ![ChannelSlot(parts[1])] =
                                        CommonAnalysisType(parts[2])])

\* ---- rigol_dp932a.py command texts
BrightnessQuery == ":SYST:BRIG?"
BrightnessCmd(brightness) == ":SYST:BRIG " \o ToString(brightness)
BeeperQuery == ":SYST:BEEP?"
BeeperCmd(value) == ":SYST:BEEP " \o OnOff(value)
BeepCmd == ":SYSTem:BEEPer:IMMediate"

error_cmd == ":SYSTem:ERRor?"
no_error_msg_bare == <<"0">>
no_error_msg == <<"0,\"No error\"">>
HandshakeQuery == error_cmd \o ";*IDN?;*TST?"

\* what __init__ hands to the logger for the three fields of the response
HandshakeLog(fields) ==
    (IF Strip(fields[1]) # no_error_msg
     THEN <<[level |-> "error", msg |-> "device has remaining errors in queue"]>>
     ELSE <<>>)
    \o (IF Strip(fields[3]) # <<"0">>
        THEN <<[level |-> "error", msg |-> "device didn't pass self test"]>>
        ELSE <<>>)
    \o <<[level |-> "debug", msg |-> "connected"]>>

\* self._ch1, self._ch2, self._ch3 and self._analyzer
Constructed == [channels |-> <<1, 2, 3>>, analyzer |-> TRUE]

\* range(3) in look_at_me
BlinkRounds == 3
\* the writes of one round: blink(), beep(), blink()
RoundSteps == <<"100", "10", "beep", "100", "10">>

\* ------------------------------------------------------------------ state
VARIABLES
    pc,         \* where the caller is inside the running operation
    op,         \* the running operation and its arguments
    sent,       \* calls handed to the transport by the running operation
    dev,        \* analyzer and front-panel settings held by the device
    locals,     \* local variables of analyze and look_at_me
    exc,        \* exception in flight; at "done", what the caller receives
    bodyExc,    \* exception the body of the scoped session raised
    reply,      \* text of the last response read from the transport
    result,     \* value returned by output_mode
    fails,      \* transport calls that raised so far
    bodySteps,  \* calls the body made so far
    logged,     \* records the running operation handed to the logger
    applied     \* set-point texts the transport received from the running
                \* operation, per channel; `:APPL?` is answered from them

vars == <<pc, op, sent, dev, locals, exc, bodyExc, reply, result, fails, bodySteps,
          logged, applied>>

NoExc == [type |-> "none", at |-> 0]
NoOp ==
    [name |-> "none", channel |-> 1, protecting |-> "CURRent",
     output |-> <<0, 0>>, level |-> 0, variant |-> "common",
     pulse |-> <<TRUE, TRUE>>, common |-> <<"None", "None", "None">>,
     log |-> FALSE, analysis_type |-> "Common", enabled |-> FALSE,
     file |-> ""]
NoApplied == [i \in Channels |-> <<>>]
NoLocals ==
    [initial_value_of_self_log |-> "", initial_value_of_self_active |-> FALSE,
     initial_brightness |-> 0, initial_beeper |-> FALSE, round |-> 0, step |-> 1]

\* operations a caller can start
Ops ==
    {[NoOp EXCEPT !.name = "run_active", !.channel = i, !.output = o] :
        i \in Channels, o \in OutputValues}
    \cup {[NoOp EXCEPT !.name = "run_protected", !.channel = i,
                       !.protecting = p, !.level = l] :
        i \in Channels, p \in Protecting, l \in LevelValues}
    \cup {[NoOp EXCEPT !.name = n, !.variant = "pulse", !.pulse = c, !.log = l] :
        n \in {"analyze"}, c \in PulseConfigs, l \in BOOLEAN}
    \cup {[NoOp EXCEPT !.name = "analyze", !.variant = "common", !.common = c,
                       !.log = l] :
        c \in CommonConfigs, l \in BOOLEAN}
    \cup {[NoOp EXCEPT !.name = "set_current_measure", !.variant = "pulse",
                       !.pulse = c] : c \in PulseConfigs}
    \cup {[NoOp EXCEPT !.name = "look_at_me"]}
    \cup {[NoOp EXCEPT !.name = "output_mode", !.channel = i] : i \in Channels}
    \cup {[NoOp EXCEPT !.name = "set_file", !.file = f] : f \in FileNames}
    \cup {[NoOp EXCEPT !.name = n, !.enabled = e] :
        n \in {"set_active", "set_log"}, e \in BOOLEAN}
    \cup {[NoOp EXCEPT !.name = n] : n \in {"get_type", "get_active", "get_log", "get_file"}}
    \cup {[NoOp EXCEPT !.name = "set_type", !.analysis_type = t] :
        t \in {"Common", "PulseCurrent"}}
    \cup {[NoOp EXCEPT !.name = "set_common_measure", !.variant = "common",
                       !.common = c] : c \in CommonConfigs}
    \cup {[NoOp EXCEPT !.name = "output_round_trip", !.channel = i, !.output = <<v, c>>] :
        i \in Channels, v \in RoundTripVoltages, c \in RoundTripCurrents}
    \cup {[NoOp EXCEPT !.name = "__init__"]}
    \cup {[NoOp EXCEPT !.name = "get_common_measure"]}

\* first statement of each operation
Entry(o) ==
    CASE o.name = "run_active" -> "ch_output"
      [] o.name = "run_protected" -> "opp_clear"
      [] o.name = "analyze" -> "an_get_log"
      [] o.name = "set_current_measure" -> "scm_type"
      [] o.name = "look_at_me" -> "lam_get_brightness"
      [] o.name = "output_mode" -> "ch_output_mode"
      [] o.name = "set_file" -> "an_set_file"
      [] o.name = "get_active" -> "an_active"
      [] o.name = "get_log" -> "an_log"
      [] o.name = "get_file" -> "an_file"
      [] o.name = "set_log" -> "an_set_log"
      [] o.name = "set_active" -> "an_set_active"
      [] o.name = "get_type" -> "an_get_type"
      [] o.name = "set_type" -> "an_set_type"
      [] o.name = "set_common_measure" -> "com_type"
      [] o.name = "output_round_trip" -> "out_set"
      [] o.name = "__init__" -> "init_handshake"
      [] o.name = "get_common_measure" -> "an_get_common"

Init ==
    /\ pc = "idle"
    /\ op = NoOp
    /\ sent = <<>>
    /\ dev \in [active : BOOLEAN, log : BOOLEAN, type : {"COM", "CURR"},
                brightness : BrightnessValues, beeper : BOOLEAN]
    /\ locals = NoLocals
    /\ exc = NoExc
    /\ bodyExc = NoExc
    /\ reply = ""
    /\ result = "none"
    /\ fails = 0
    /\ bodySteps = 0
    /\ logged = <<>>
    /\ applied = NoApplied

\* ------------------------------------------------------------- transport
\* outcomes of one transport call: TRUE it returns, FALSE it raises
MayFail == IF fails < MaxFailures THEN BOOLEAN ELSE {TRUE}

\* one call of scpi.send / scpi.query
Transport(cmd, by, ok) ==
    /\ sent' = Append(sent, [cmd |-> cmd, by |-> by, ok |-> ok])
    /\ fails' = IF ok THEN fails ELSE fails + 1

\* the error raised by the transport call being made
TransportError == [type |-> "TransportError", at |-> Len(sent) + 1]

\* the caller starts an operation
Call ==
    /\ pc \in {"idle", "done"}
    /\ \E o \in Ops :
        /\ op' = o
        /\ pc' = Entry(o)
    /\ sent' = <<>>
    /\ locals' = NoLocals
    /\ exc' = NoExc
    /\ bodyExc' = NoExc
    /\ reply' = ""
    /\ result' = "none"
    /\ bodySteps' = 0
    /\ logged' = <<>>
    /\ applied' = NoApplied
    /\ UNCHANGED <<dev, fails>>

\* ------------------------------------------------- Channel.__call__
ChannelFinally_successOnly == "done"
\* where an exception raised inside the try block of Channel.__call__ goes
ChannelFinally == "ch_disable"

\* self.output = output
Channel_call_output ==
    /\ pc = "ch_output"
    /\ \E ok \in MayFail :
        /\ Transport(ApplCmd(op.channel, op.output), "setup", ok)
        /\ IF ok
           THEN /\ pc' = "ch_enable"
                /\ exc' = exc
                /\ applied' = [applied EXCEPT ![op.channel] = ApplTexts(op.output)]
           ELSE /\ pc' = ChannelFinally
                /\ exc' = TransportError
                /\ applied' = applied
    /\ UNCHANGED <<logged, op, dev, locals, bodyExc, reply, result, bodySteps>>

\* self.enable()
Channel_call_enable ==
    /\ pc = "ch_enable"
    /\ \E ok \in MayFail :
        /\ Transport(EnabledCmd(op.channel, TRUE), "setup", ok)
        /\ IF ok
           THEN /\ pc' = "ch_body"
                /\ exc' = exc
           ELSE /\ pc' = ChannelFinally
                /\ exc' = TransportError
    /\ UNCHANGED <<logged, applied, op, dev, locals, bodyExc, reply, result, bodySteps>>

\* finally: self.disable()
Channel_call_disable ==
    /\ pc = "ch_disable"
    /\ \E ok \in MayFail :
        /\ Transport(EnabledCmd(op.channel, FALSE), "cleanup", ok)
        /\ IF ok
           THEN /\ exc' = exc
           ELSE /\ exc' = TransportError
    /\ pc' = "done"
    /\ UNCHANGED <<logged, applied, op, dev, locals, bodyExc, reply, result, bodySteps>>

\* return OutputMode(self._scpi.query(f":OUTP:MODE? CH{self._channel}"))
Channel_output_mode ==
    /\ pc = "ch_output_mode"
    /\ \E ok \in MayFail, text \in ModeReplies :
        /\ Transport(OutputModeQuery(op.channel), "call", ok)
        /\ IF ok
           THEN /\ reply' = text
                /\ IF OutputMode(text) = "ValueError"
                   THEN /\ exc' = [type |-> "ValueError", at |-> Len(sent) + 1]
                        /\ result' = result
                   ELSE /\ exc' = exc
                        /\ result' = OutputMode(text)
           ELSE /\ reply' = reply
                /\ exc' = TransportError
                /\ result' = result
    /\ pc' = "done"
    /\ UNCHANGED <<logged, applied, op, dev, locals, bodyExc, bodySteps>>

\* the answer to `:APPL? CH<i>`: `<name>:<mode>,<V>,<I>` with the set-point
\* texts of the last `:APPL CH<i>,<V>,<I>` received
OutputReply(channel) ==
    <<"CH" \o ToString(channel), ":", "32V/3A", ",">>
        \o applied[channel][1] \o <<",">> \o applied[channel][2]

\* Channel.output setter, called on its own
Channel_output_set ==
    /\ pc = "out_set"
    /\ \E ok \in MayFail :
        /\ Transport(ApplCmd(op.channel, op.output), "call", ok)
        /\ IF ok
           THEN /\ pc' = "out_get"
                /\ exc' = exc
                /\ applied' = [applied EXCEPT ![op.channel] = ApplTexts(op.output)]
           ELSE /\ pc' = "done"
                /\ exc' = TransportError
                /\ applied' = applied
    /\ UNCHANGED <<logged, op, dev, locals, bodyExc, reply, result, bodySteps>>

\* Channel.output getter
Channel_output_get ==
    /\ pc = "out_get"
    /\ \E ok \in MayFail :
        /\ Transport(OutputQuery(op.channel), "call", ok)
        /\ IF ok
           THEN LET parsed == OutputFromResponse(OutputReply(op.channel))
                IN  /\ reply' = OutputReply(op.channel)
                    /\ IF parsed.error = "none"
                       THEN /\ exc' = exc
                            /\ result' = parsed.value
                       ELSE /\ exc' = [type |-> parsed.error, at |-> Len(sent) + 1]
                            /\ result' = result
           ELSE /\ reply' = reply
                /\ exc' = TransportError
                /\ result' = result
    /\ pc' = "done"
    /\ UNCHANGED <<logged, applied, op, dev, locals, bodyExc, bodySteps>>

\* ---------------------------------------- OverProtectiveParent.__call__
ProtFinally_successOnly == "done"
\* where an exception raised inside the try block of __call__ goes
ProtFinally == "opp_state_off"

\* self.clear()
Prot_call_clear ==
    /\ pc = "opp_clear"
    /\ \E ok \in MayFail :
        /\ Transport(ProtClearCmd(op.channel, op.protecting), "setup", ok)
        /\ IF ok THEN pc' = "opp_level" /\ exc' = exc
                 ELSE pc' = ProtFinally /\ exc' = TransportError
    /\ UNCHANGED <<logged, applied, op, dev, locals, bodyExc, reply, result, bodySteps>>

\* self.level = level
Prot_call_level ==
    /\ pc = "opp_level"
    /\ \E ok \in MayFail :
        /\ Transport(ProtLevelCmd(op.channel, op.protecting, op.level), "setup", ok)
        /\ IF ok THEN pc' = "opp_state_on" /\ exc' = exc
                 ELSE pc' = ProtFinally /\ exc' = TransportError
    /\ UNCHANGED <<logged, applied, op, dev, locals, bodyExc, reply, result, bodySteps>>

\* self.state = True
Prot_call_arm ==
    /\ pc = "opp_state_on"
    /\ \E ok \in MayFail :
        /\ Transport(ProtStateCmd(op.channel, op.protecting, TRUE), "setup", ok)
        /\ IF ok
           THEN /\ pc' = "opp_body"
                /\ exc' = exc
           ELSE /\ pc' = ProtFinally
                /\ exc' = TransportError
    /\ UNCHANGED <<logged, applied, op, dev, locals, bodyExc, reply, result, bodySteps>>

\* finally: self.state = False
Prot_call_disarm ==
    /\ pc = "opp_state_off"
    /\ \E ok \in MayFail :
        /\ Transport(ProtStateCmd(op.channel, op.protecting, FALSE), "cleanup", ok)
        /\ IF ok
           THEN /\ exc' = exc
           ELSE /\ exc' = TransportError
    /\ pc' = "done"
    /\ UNCHANGED <<logged, applied, op, dev, locals, bodyExc, reply, result, bodySteps>>

\* ------------------------------------------------------- AnalyzerAPI
AnalyzeFinally_successOnly == "done"
\* where an exception raised inside the try block of analyze goes
AnalyzeFinally == "an_restore_active"

RestoresLog_always(log) == TRUE
\* the guard `if log:` of the finally block of analyze
RestoresLog(log) == log

\* tag of the calls made by the configuration setters
ConfigBy == IF op.name = "analyze" THEN "setup" ELSE "call"
\* where an exception raised by a configuration setter goes
ConfigRaise == IF op.name = "analyze" THEN AnalyzeFinally ELSE "done"
ConfigDone_noLog ==
    IF op.name = "analyze" THEN "an_active_on" ELSE "done"
\* what follows the configuration setter
ConfigDone ==
    IF op.name = "analyze"
    THEN (IF op.log THEN "an_log_on" ELSE "an_active_on")
    ELSE "done"

\* initial_value_of_self_log = self.log
Analyzer_analyze_get_log ==
    /\ pc = "an_get_log"
    /\ \E ok \in MayFail :
        /\ Transport(LogQuery, "setup", ok)
        /\ IF ok
           THEN /\ reply' = OneZero(dev.log)
                /\ locals' = [locals EXCEPT !.initial_value_of_self_log = OneZero(dev.log)]
                /\ pc' = "an_get_active"
                /\ exc' = exc
           ELSE /\ reply' = reply
                /\ locals' = locals
                /\ pc' = "done"
                /\ exc' = TransportError
    /\ UNCHANGED <<logged, applied, op, dev, bodyExc, result, bodySteps>>

\* initial_value_of_self_active = self.active
Analyzer_analyze_get_active ==
    /\ pc = "an_get_active"
    /\ \E ok \in MayFail :
        /\ Transport(ActiveQuery, "setup", ok)
        /\ IF ok
           THEN /\ reply' = OneZero(dev.active)
                /\ locals' = [locals EXCEPT !.initial_value_of_self_active =
                                                (OneZero(dev.active) = "1")]
                /\ pc' = IF op.variant = "pulse" THEN "scm_type" ELSE "com_type"
                /\ exc' = exc
           ELSE /\ reply' = reply
                /\ locals' = locals
                /\ pc' = "done"
                /\ exc' = TransportError
    /\ UNCHANGED <<logged, applied, op, dev, bodyExc, result, bodySteps>>

\* set_current_measure: self.type = AnalysisType.PulseCurrent, then the
\* check of the configuration
Analyzer_set_current_measure_type ==
    /\ pc = "scm_type"
    /\ \E ok \in MayFail :
        /\ Transport(TypeCmd("CURR"), ConfigBy, ok)
        /\ IF ok
           THEN /\ dev' = [dev EXCEPT !.type = TypeAfter(TypeCmd("CURR"), dev.type)]
                /\ IF ~AnyEnabled(op.pulse)
                   THEN /\ exc' = [type |-> "AttributeError", at |-> Len(sent) + 1]
                        /\ pc' = ConfigRaise
                   ELSE /\ exc' = exc
                        /\ pc' = "scm_send"
           ELSE /\ dev' = dev
                /\ exc' = TransportError
                /\ pc' = ConfigRaise
    /\ UNCHANGED <<logged, applied, op, locals, bodyExc, reply, result, bodySteps>>

\* set_current_measure: the measure-type command
Analyzer_set_current_measure_send ==
    /\ pc = "scm_send"
    /\ \E ok \in MayFail :
        /\ Transport(CurrentMeasureCmd(op.pulse), ConfigBy, ok)
        /\ IF ok THEN pc' = ConfigDone /\ exc' = exc
                 ELSE pc' = ConfigRaise /\ exc' = TransportError
    /\ UNCHANGED <<logged, applied, op, dev, locals, bodyExc, reply, result, bodySteps>>

\* set_common_measure: self.type = AnalysisType.Common
Analyzer_set_common_measure_type ==
    /\ pc = "com_type"
    /\ \E ok \in MayFail :
        /\ Transport(TypeCmd("COM"), ConfigBy, ok)
        /\ IF ok
           THEN /\ dev' = [dev EXCEPT !.type = TypeAfter(TypeCmd("COM"), dev.type)]
                /\ exc' = exc
                /\ pc' = "com_send"
           ELSE /\ dev' = dev
                /\ exc' = TransportError
                /\ pc' = ConfigRaise
    /\ UNCHANGED <<logged, applied, op, locals, bodyExc, reply, result, bodySteps>>

\* set_common_measure: the measure-type command
Analyzer_set_common_measure_send ==
    /\ pc = "com_send"
    /\ \E ok \in MayFail :
        /\ Transport(CommonMeasureCmd(op.common), ConfigBy, ok)
        /\ IF ok THEN pc' = ConfigDone /\ exc' = exc
                 ELSE pc' = ConfigRaise /\ exc' = TransportError
    /\ UNCHANGED <<logged, applied, op, dev, locals, bodyExc, reply, result, bodySteps>>

\* if log: self.log = True
Analyzer_analyze_log_on ==
    /\ pc = "an_log_on"
    /\ \E ok \in MayFail :
        /\ Transport(LogCmd(TRUE), "setup", ok)
        /\ IF ok
           THEN /\ dev' = [dev EXCEPT !.log = TRUE]
                /\ exc' = exc
                /\ pc' = "an_active_on"
           ELSE /\ dev' = dev
                /\ exc' = TransportError
                /\ pc' = AnalyzeFinally
    /\ UNCHANGED <<logged, applied, op, locals, bodyExc, reply, result, bodySteps>>

\* self.active = True
Analyzer_analyze_active_on ==
    /\ pc = "an_active_on"
    /\ \E ok \in MayFail :
        /\ Transport(ActiveCmd(TRUE), "setup", ok)
        /\ IF ok
           THEN /\ dev' = [dev EXCEPT !.active = TRUE]
                /\ exc' = exc
                /\ pc' = "an_body"
           ELSE /\ dev' = dev
                /\ exc' = TransportError
                /\ pc' = AnalyzeFinally
    /\ UNCHANGED <<logged, applied, op, locals, bodyExc, reply, result, bodySteps>>

\* finally: self.active = initial_value_of_self_active
Analyzer_analyze_restore_active ==
    /\ pc = "an_restore_active"
    /\ \E ok \in MayFail :
        /\ Transport(ActiveCmd(locals.initial_value_of_self_active), "cleanup", ok)
        /\ IF ok
           THEN /\ dev' = [dev EXCEPT !.active = locals.initial_value_of_self_active]
                /\ exc' = exc
                /\ pc' = IF RestoresLog(op.log) THEN "an_restore_log" ELSE "done"
           ELSE /\ dev' = dev
                /\ exc' = TransportError
                /\ pc' = "done"
    /\ UNCHANGED <<logged, applied, op, locals, bodyExc, reply, result, bodySteps>>

\* finally: if log: self.log = initial_value_of_self_log
Analyzer_analyze_restore_log ==
    /\ pc = "an_restore_log"
    /\ \E ok \in MayFail :
        /\ Transport(LogCmd(StrTruthy(locals.initial_value_of_self_log)),
                     "cleanup", ok)
        /\ IF ok
           THEN /\ dev' = [dev EXCEPT !.log = StrTruthy(locals.initial_value_of_self_log)]
                /\ exc' = exc
           ELSE /\ dev' = dev
                /\ exc' = TransportError
    /\ pc' = "done"
    /\ UNCHANGED <<logged, applied, op, locals, bodyExc, reply, result, bodySteps>>

\* type setter, called on its own
Analyzer_set_type ==
    /\ pc = "an_set_type"
    /\ \E ok \in MayFail :
        /\ Transport(TypeCmd(AnalysisTypeValue(op.analysis_type)), "call", ok)
        /\ IF ok
           THEN /\ dev' = [dev EXCEPT !.type =
                              TypeAfter(TypeCmd(AnalysisTypeValue(op.analysis_type)),
                                        dev.type)]
                /\ exc' = exc
           ELSE /\ dev' = dev
                /\ exc' = TransportError
    /\ pc' = "done"
    /\ UNCHANGED <<logged, applied, op, locals, bodyExc, reply, result, bodySteps>>

\* type getter
Analyzer_get_type ==
    /\ pc = "an_get_type"
    /\ \E ok \in MayFail :
        /\ Transport(TypeQuery, "call", ok)
        /\ IF ok
           THEN /\ reply' = dev.type
                /\ IF AnalysisType(dev.type) = "ValueError"
                   THEN /\ exc' = [type |-> "ValueError", at |-> Len(sent) + 1]
                        /\ result' = result
                   ELSE /\ exc' = exc
                        /\ result' = AnalysisType(dev.type)
           ELSE /\ reply' = reply
                /\ exc' = TransportError
                /\ result' = result
    /\ pc' = "done"
    /\ UNCHANGED <<logged, applied, op, dev, locals, bodyExc, bodySteps>>

\* active setter, called on its own
Analyzer_set_active ==
    /\ pc = "an_set_active"
    /\ \E ok \in MayFail :
        /\ Transport(ActiveCmd(op.enabled), "call", ok)
        /\ IF ok
           THEN /\ dev' = [dev EXCEPT !.active = op.enabled]
                /\ exc' = exc
           ELSE /\ dev' = dev
                /\ exc' = TransportError
    /\ pc' = "done"
    /\ UNCHANGED <<logged, applied, op, locals, bodyExc, reply, result, bodySteps>>

\* active getter, called on its own
Analyzer_get_active ==
    /\ pc = "an_active"
    /\ \E ok \in MayFail :
        /\ Transport(ActiveQuery, "call", ok)
        /\ IF ok
           THEN /\ reply' = OneZero(dev.active)
                /\ result' = (OneZero(dev.active) = "1")
                /\ exc' = exc
           ELSE /\ reply' = reply
                /\ result' = result
                /\ exc' = TransportError
    /\ pc' = "done"
    /\ UNCHANGED <<logged, applied, op, dev, locals, bodyExc, bodySteps>>

\* log setter, called on its own
Analyzer_set_log ==
    /\ pc = "an_set_log"
    /\ \E ok \in MayFail :
        /\ Transport(LogCmd(op.enabled), "call", ok)
        /\ IF ok
           THEN /\ dev' = [dev EXCEPT !.log = op.enabled]
                /\ exc' = exc
           ELSE /\ dev' = dev
                /\ exc' = TransportError
    /\ pc' = "done"
    /\ UNCHANGED <<logged, applied, op, locals, bodyExc, reply, result, bodySteps>>

\* log getter, called on its own: the text of the response
Analyzer_get_log ==
    /\ pc = "an_log"
    /\ \E ok \in MayFail :
        /\ Transport(LogQuery, "call", ok)
        /\ IF ok
           THEN /\ reply' = OneZero(dev.log)
                /\ result' = OneZero(dev.log)
                /\ exc' = exc
           ELSE /\ reply' = reply
                /\ result' = result
                /\ exc' = TransportError
    /\ pc' = "done"
    /\ UNCHANGED <<logged, applied, op, dev, locals, bodyExc, bodySteps>>

\* file setter
Analyzer_set_file ==
    /\ pc = "an_set_file"
    /\ \E ok \in MayFail :
        /\ Transport(FileCmd(op.file), "call", ok)
        /\ exc' = IF ok THEN exc ELSE TransportError
    /\ pc' = "done"
    /\ UNCHANGED <<logged, applied, op, dev, locals, bodyExc, reply, result, bodySteps>>

\* file getter: the path the instrument reports
Analyzer_get_file ==
    /\ pc = "an_file"
    /\ \E ok \in MayFail, path \in FileNames :
        /\ Transport(FileQuery, "call", ok)
        /\ IF ok
           THEN /\ reply' = path
                /\ result' = path
                /\ exc' = exc
           ELSE /\ reply' = reply
                /\ result' = result
                /\ exc' = TransportError
    /\ pc' = "done"
    /\ UNCHANGED <<logged, applied, op, dev, locals, bodyExc, bodySteps>>

\* text of one token of a common-measure response
TokenText(token) == <<"CH" \o ToString(token[1]), "_", token[2]>>
RECURSIVE ReplyText(_)
\* text of a common-measure response: its tokens joined by blanks
ReplyText(tokens) ==
    IF Len(tokens) = 1 THEN TokenText(tokens[1])
    ELSE TokenText(tokens[1]) \o <<" ">> \o ReplyText(Tail(tokens))

\* get_common_measure
Analyzer_get_common_measure ==
    /\ pc = "an_get_common"
    /\ \E ok \in MayFail, tokens \in CommonReplies :
        /\ Transport(CommonMeasureQuery, "call", ok)
        /\ IF ok
           THEN LET parsed == ParseItems(Split(ReplyText(tokens), " "),
                                         <<"None", "None", "None">>)
                IN  /\ reply' = ReplyText(tokens)
                    /\ IF parsed.error = "none"
                       THEN /\ exc' = exc
                            /\ result' = parsed.value
                       ELSE /\ exc' = [type |-> parsed.error, at |-> Len(sent) + 1]
                            /\ result' = result
           ELSE /\ reply' = reply
                /\ exc' = TransportError
                /\ result' = result
    /\ pc' = "done"
    /\ UNCHANGED <<logged, applied, op, dev, locals, bodyExc, bodySteps>>

\* ------------------------------------------- bodies of the scoped sessions
BodyPcs == {"ch_body", "opp_body", "an_body"}
\* the finally block an exception raised at the yield goes to
Handler ==
    CASE pc = "ch_body" -> ChannelFinally
      [] pc = "opp_body" -> ProtFinally
      [] pc = "an_body" -> AnalyzeFinally
\* the finally block reached when the body returns
Cleanup ==
    CASE pc = "ch_body" -> "ch_disable"
      [] pc = "opp_body" -> "opp_state_off"
      [] pc = "an_body" -> "an_restore_active"

\* the body calls Channel.probe
Body_probe ==
    /\ pc \in {"ch_body", "opp_body"}
    /\ bodySteps < MaxBodySteps
    /\ bodySteps' = bodySteps + 1
    /\ \E ok \in MayFail :
        /\ Transport(ProbeCmd(op.channel), "body", ok)
        /\ IF ok
           THEN /\ reply' = "5.000,1.000,5.000"
                /\ pc' = pc
                /\ exc' = exc
                /\ bodyExc' = bodyExc
           ELSE /\ reply' = reply
                /\ pc' = Handler
                /\ exc' = TransportError
                /\ bodyExc' = TransportError
    /\ UNCHANGED <<logged, applied, op, dev, locals, result>>

\* the body sets AnalyzerAPI.log
Body_set_logging ==
    /\ pc = "an_body"
    /\ bodySteps < MaxBodySteps
    /\ bodySteps' = bodySteps + 1
    /\ \E ok \in MayFail, enabled \in BOOLEAN :
        /\ Transport(LogCmd(enabled), "body", ok)
        /\ IF ok
           THEN /\ dev' = [dev EXCEPT !.log = enabled]
                /\ pc' = pc
                /\ exc' = exc
                /\ bodyExc' = bodyExc
           ELSE /\ dev' = dev
                /\ pc' = Handler
                /\ exc' = TransportError
                /\ bodyExc' = TransportError
    /\ UNCHANGED <<logged, applied, op, locals, reply, result>>

\* the body returns
Body_return ==
    /\ pc \in BodyPcs
    /\ pc' = Cleanup
    /\ UNCHANGED <<logged, applied, op, sent, dev, locals, exc, bodyExc, reply, result, fails, bodySteps>>

\* the body raises, or is interrupted
Body_raise ==
    /\ pc \in BodyPcs
    /\ \E t \in BodyErrors :
        /\ exc' = [type |-> t, at |-> Len(sent)]
        /\ bodyExc' = [type |-> t, at |-> Len(sent)]
    /\ pc' = Handler
    /\ UNCHANGED <<logged, applied, op, sent, dev, locals, reply, result, fails, bodySteps>>

\* ------------------------------------------------ RigolDP932A.look_at_me
\* initial_brightness = self.display_brightness
Rigol_look_at_me_get_brightness ==
    /\ pc = "lam_get_brightness"
    /\ \E ok \in MayFail :
        /\ Transport(BrightnessQuery, "setup", ok)
        /\ IF ok
           THEN /\ reply' = ToString(dev.brightness)
                /\ locals' = [locals EXCEPT !.initial_brightness = dev.brightness]
                /\ pc' = "lam_get_beeper"
                /\ exc' = exc
           ELSE /\ reply' = reply
                /\ locals' = locals
                /\ pc' = "done"
                /\ exc' = TransportError
    /\ UNCHANGED <<logged, applied, op, dev, bodyExc, result, bodySteps>>

\* initial_beeper = self.beeper
Rigol_look_at_me_get_beeper ==
    /\ pc = "lam_get_beeper"
    /\ \E ok \in MayFail :
        /\ Transport(BeeperQuery, "setup", ok)
        /\ IF ok
           THEN /\ reply' = OneZero(dev.beeper)
                /\ locals' = [locals EXCEPT !.initial_beeper = (OneZero(dev.beeper) = "1")]
                /\ pc' = "lam_loop"
                /\ exc' = exc
           ELSE /\ reply' = reply
                /\ locals' = locals
                /\ pc' = "done"
                /\ exc' = TransportError
    /\ UNCHANGED <<logged, applied, op, dev, bodyExc, result, bodySteps>>

\* locals after one write of the loop `for _ in range(3)`
LoopAdvance ==
    IF locals.step < Len(RoundSteps)
    THEN [locals EXCEPT !.step = locals.step + 1]
    ELSE [locals EXCEPT !.step = 1, !.round = locals.round + 1]
\* the statement after that write
LoopNext ==
    IF locals.step = Len(RoundSteps) /\ locals.round + 1 = BlinkRounds
    THEN "lam_restore_brightness" ELSE "lam_loop"

\* blink(): self.display_brightness = 100, then = 10
Rigol_look_at_me_blink ==
    /\ pc = "lam_loop"
    /\ RoundSteps[locals.step] # "beep"
    /\ LET brightness == IF RoundSteps[locals.step] = "100" THEN 100 ELSE 10
       IN  \E ok \in MayFail :
            /\ Transport(BrightnessCmd(brightness), "body", ok)
            /\ IF ok
               THEN /\ dev' = [dev EXCEPT !.brightness = brightness]
                    /\ locals' = LoopAdvance
                    /\ pc' = LoopNext
                    /\ exc' = exc
               ELSE /\ dev' = dev
                    /\ locals' = locals
                    /\ pc' = "done"
                    /\ exc' = TransportError
    /\ UNCHANGED <<logged, applied, op, bodyExc, reply, result, bodySteps>>

\* self.beep()
Rigol_look_at_me_beep ==
    /\ pc = "lam_loop"
    /\ RoundSteps[locals.step] = "beep"
    /\ \E ok \in MayFail :
        /\ Transport(BeepCmd, "body", ok)
        /\ IF ok
           THEN /\ locals' = LoopAdvance
                /\ pc' = LoopNext
                /\ exc' = exc
           ELSE /\ locals' = locals
                /\ pc' = "done"
                /\ exc' = TransportError
    /\ UNCHANGED <<logged, applied, op, dev, bodyExc, reply, result, bodySteps>>

\* self.display_brightness = initial_brightness
Rigol_look_at_me_restore_brightness ==
    /\ pc = "lam_restore_brightness"
    /\ \E ok \in MayFail :
        /\ Transport(BrightnessCmd(locals.initial_brightness), "cleanup", ok)
        /\ IF ok
           THEN /\ dev' = [dev EXCEPT !.brightness = locals.initial_brightness]
                /\ pc' = "lam_restore_beeper"
                /\ exc' = exc
           ELSE /\ dev' = dev
                /\ pc' = "done"
                /\ exc' = TransportError
    /\ UNCHANGED <<logged, applied, op, locals, bodyExc, reply, result, bodySteps>>

\* self.beeper = initial_beeper
Rigol_look_at_me_restore_beeper ==
    /\ pc = "lam_restore_beeper"
    /\ \E ok \in MayFail :
        /\ Transport(BeeperCmd(locals.initial_beeper), "cleanup", ok)
        /\ IF ok
           THEN /\ dev' = [dev EXCEPT !.beeper = locals.initial_beeper]
                /\ exc' = exc
           ELSE /\ dev' = dev
                /\ exc' = TransportError
    /\ pc' = "done"
    /\ UNCHANGED <<logged, applied, op, locals, bodyExc, reply, result, bodySteps>>

\* ------------------------------------------------ RigolDP932A.__init__
\* text of a handshake response
HandshakeText(error, test) == error \o <<";", "MOCK-1", ";">> \o test
HandshakeReplies ==
    {HandshakeText(e, t) : e \in ErrorFields, t \in TestFields}
    \cup {<<"0,\"No error\"", ";", "MOCK-1">>}

\* __init__: the handshake query inside `with self._scpi`, then the
\* creation of the channels and the analyzer
Rigol_init ==
    /\ pc = "init_handshake"
    /\ \E ok \in MayFail, text \in HandshakeReplies, kind \in FailureKinds :
        /\ Transport(HandshakeQuery, "call", ok)
        /\ IF ok
           THEN /\ reply' = text
                /\ IF Len(Split(text, ";")) # 3
                   THEN /\ exc' = [type |-> "ValueError", at |-> Len(sent) + 1]
                        /\ logged' = logged
                        /\ result' = result
                   ELSE /\ exc' = exc
                        /\ logged' = HandshakeLog(Split(text, ";"))
                        /\ result' = Constructed
           ELSE /\ reply' = reply
                /\ IF kind = "SCPIError"
                   THEN /\ exc' = exc
                        /\ logged' = <<[level |-> "error",
                                        msg |-> "failed querying IDN of device"]>>
                        /\ result' = Constructed
                   ELSE /\ exc' = [type |-> kind, at |-> Len(sent) + 1]
                        /\ logged' = logged
                        /\ result' = result
    /\ pc' = "done"
    /\ UNCHANGED <<applied, op, dev, locals, bodyExc, bodySteps>>

\* ---------------------------------------------------------- specification
Next ==
    \/ Call
    \/ Channel_call_output
    \/ Channel_call_enable
    \/ Channel_call_disable
    \/ Channel_output_mode
    \/ Prot_call_clear
    \/ Prot_call_level
    \/ Prot_call_arm
    \/ Prot_call_disarm
    \/ Analyzer_analyze_get_log
    \/ Analyzer_analyze_get_active
    \/ Analyzer_set_current_measure_type
    \/ Analyzer_set_current_measure_send
    \/ Analyzer_set_common_measure_type
    \/ Analyzer_set_common_measure_send
    \/ Analyzer_analyze_log_on
    \/ Analyzer_analyze_active_on
    \/ Analyzer_analyze_restore_active
    \/ Analyzer_analyze_restore_log
    \/ Body_probe
    \/ Body_set_logging
    \/ Body_return
    \/ Body_raise
    \/ Rigol_look_at_me_get_brightness
    \/ Rigol_look_at_me_get_beeper
    \/ Rigol_look_at_me_blink
    \/ Rigol_look_at_me_beep
    \/ Rigol_look_at_me_restore_brightness
    \/ Rigol_look_at_me_restore_beeper
    \/ Analyzer_get_common_measure
    \/ Rigol_init
    \/ Channel_output_set
    \/ Channel_output_get
    \/ Analyzer_set_type
    \/ Analyzer_get_type
    \/ Analyzer_set_active
    \/ Analyzer_get_active
    \/ Analyzer_set_log
    \/ Analyzer_get_log
    \/ Analyzer_set_file
    \/ Analyzer_get_file

Spec == Init /\ [][Next]_vars

\* ------------------------------------------------------------ properties
SentBy(tag) == SelectSeq(sent, LAMBDA e : e.by = tag)
Cmds(calls) == [k \in 1 .. Len(calls) |-> calls[k].cmd]
AllOk(calls) == \A k \in 1 .. Len(calls) : calls[k].ok
Finished(name) == pc = "done" /\ op.name = name
\* analyze or look_at_me got past its two initial queries
Entered == Len(sent) >= 2 /\ sent[1].ok /\ sent[2].ok
\* the text f"{value:.3f}" gives for the set-points of OutputValues
Expected3(m) ==
    CASE m = 5000 -> "5.000"
      [] m = 1000 -> "1.000"
      [] m = 12345 -> "12.345"
      [] m = 50 -> "0.050"
      [] m = 1500 -> "1.500"
      [] m = 30000 -> "30.000"

\* C1: when a run_active session on channel i ends, however its body ended,
\* the last command it handed to the transport is `:OUTP CH<i>,OFF`, sent by
\* the finally block.
C1_RunActiveEndsDisabled ==
    Finished("run_active") =>
        /\ sent # <<>>
        /\ sent[Len(sent)].cmd = ":OUTP CH" \o ToString(op.channel) \o ",OFF"
        /\ sent[Len(sent)].by = "cleanup"

\* C1 witness: a session whose body was interrupted ended with the disable.
C1_Witness ==
    /\ Finished("run_active")
    /\ bodyExc.type = "KeyboardInterrupt"
    /\ sent[Len(sent)].cmd = ":OUTP CH" \o ToString(op.channel) \o ",OFF"
    /\ sent[Len(sent)].ok

\* C2: when a run_protected session ends, however its body ended, the last
\* command it handed to the transport is `...PROT:STAT OFF`, sent by the
\* finally block; so an error of the body reaches the caller after the disarm.
C2_RunProtectedEndsDisarmed ==
    Finished("run_protected") =>
        /\ sent # <<>>
        /\ sent[Len(sent)].cmd =
              ":SOURCe[" \o ToString(op.channel) \o "]:" \o op.protecting
                  \o ":PROT:STAT OFF"
        /\ sent[Len(sent)].by = "cleanup"

\* C2 witness: the caller holds the error of the body, the disarm was sent.
C2_Witness ==
    /\ Finished("run_protected")
    /\ bodyExc.type = "BodyError"
    /\ exc = bodyExc
    /\ sent[Len(sent)].cmd =
          ":SOURCe[" \o ToString(op.channel) \o "]:" \o op.protecting
              \o ":PROT:STAT OFF"
    /\ sent[Len(sent)].ok

\* a finished run_active session whose body was one probe, no call failing
SingleProbeRun ==
    /\ Finished("run_active")
    /\ bodySteps = 1
    /\ bodyExc = NoExc
    /\ AllOk(sent)

\* C3: a run_active session on channel i with Output(v, c) whose body is a
\* single probe, on a transport that never fails, sends exactly `:APPL
\* CH<i>,<v>,<c>`, `:OUTP CH<i>,ON`, `MEAS:ALL? CH<i>`, `:OUTP CH<i>,OFF`.
C3_SingleProbeSequence ==
    SingleProbeRun =>
        /\ Cmds(sent) =
              << ":APPL CH" \o ToString(op.channel) \o ","
                     \o Expected3(op.output[1]) \o "," \o Expected3(op.output[2]),
                 ":OUTP CH" \o ToString(op.channel) \o ",ON",
                 "MEAS:ALL? CH" \o ToString(op.channel),
                 ":OUTP CH" \o ToString(op.channel) \o ",OFF" >>
        /\ (op.channel = 1 /\ op.output = <<5000, 1000>>) =>
              Cmds(sent) = << ":APPL CH1,5.000,1.000", ":OUTP CH1,ON",
                              "MEAS:ALL? CH1", ":OUTP CH1,OFF" >>

\* C3 witness: the run of the end-to-end scenario, channel 1 at 5.0 V, 1.0 A.
C3_Witness ==
    /\ SingleProbeRun
    /\ op.channel = 1
    /\ op.output = <<5000, 1000>>
    /\ Len(sent) = 4

\* C4: set_current_measure with no channel enabled raises the
\* invalid-argument error and has sent no command to the transport.
C4_RejectedBeforeAnyCommand ==
    (Finished("set_current_measure") /\ op.pulse = <<FALSE, FALSE>> /\ fails = 0)
        => (exc.type = "AttributeError" /\ sent = <<>>)

\* C5: an analyze session started with log=True that found logging off
\* (query answered `0`) leaves logging off on the device when it ends, and
\* one that found it on leaves it on (stated for the sessions that end
\* without any error).
C5_LoggingRestored ==
    (Finished("analyze") /\ op.log /\ Entered /\ fails = 0 /\ exc = NoExc)
        => dev.log = (locals.initial_value_of_self_log = "1")

\* C6: an analyze session that entered its try block sends, as the first
\* command of its finally block and after every setup and body command,
\* `:ANALyzer:STATe <prior>` with the value read at session start, which is
\* the value the device held then; once that command is accepted the device
\* is back at that value.
C6_ActiveRestored ==
    /\ (op.name = "analyze" /\ pc \in {"scm_type", "com_type"})
          => locals.initial_value_of_self_active = dev.active
    /\ (Finished("analyze") /\ Entered) =>
          LET cl == SentBy("cleanup")
          IN  /\ cl # <<>>
              /\ cl[1].cmd = ":ANALyzer:STATe "
                    \o (IF locals.initial_value_of_self_active THEN "1" ELSE "0")
              /\ cl[1].ok => dev.active = locals.initial_value_of_self_active
              /\ \A k \in 1 .. Len(sent) : \A j \in k .. Len(sent) :
                    sent[k].by = "cleanup" => sent[j].by = "cleanup"

\* C6 witness: the analyzer was off, the session switched it on, the body
\* raised, and the session switched it off again.
C6_Witness ==
    /\ Finished("analyze")
    /\ Entered
    /\ bodyExc.type = "BodyError"
    /\ ~locals.initial_value_of_self_active
    /\ \E k \in 1 .. Len(sent) : sent[k].cmd = ":ANALyzer:STATe 1" /\ sent[k].ok
    /\ sent[Len(sent)].cmd = ":ANALyzer:STATe 0"
    /\ ~dev.active

LogCmds == {":ANALyzer:SAVE:STATe 1", ":ANALyzer:SAVE:STATe 0"}
\* logging commands of the body that the transport accepted
BodyLogCmds == SelectSeq(sent, LAMBDA e : e.by = "body" /\ e.ok /\ e.cmd \in LogCmds)

\* C7 as stated: an analyze session started with log=False ends with the
\* device's logging state equal to the one before the session, even if the
\* body changed it (stated for the sessions that end without any error).
C7_LoggingUntouchedAsStated ==
    (Finished("analyze") /\ ~op.log /\ Entered /\ fails = 0 /\ exc = NoExc)
        => dev.log = (locals.initial_value_of_self_log = "1")

\* C7 amended: an analyze session started with log=False sends no logging
\* command in its setup or its finally block, so the device's logging state
\* at the end is the one the body left: the last value the body set, or the
\* state before the session if the body set none.
C7_LoggingLeftToBody ==
    (Finished("analyze") /\ ~op.log /\ Entered) =>
        /\ \A k \in 1 .. Len(sent) :
              sent[k].by \in {"setup", "cleanup"} => sent[k].cmd \notin LogCmds
        /\ dev.log = IF BodyLogCmds = <<>>
                     THEN locals.initial_value_of_self_log = "1"
                     ELSE BodyLogCmds[Len(BodyLogCmds)].cmd = ":ANALyzer:SAVE:STATe 1"

\* C7 witness: logging was off, the body switched it on, the session ended
\* with logging on.
C7_Witness ==
    /\ Finished("analyze")
    /\ ~op.log
    /\ Entered
    /\ locals.initial_value_of_self_log = "0"
    /\ BodyLogCmds # <<>>
    /\ dev.log

Session == op.name \in {"run_active", "run_protected", "analyze"}

\* C8 as stated: when the body of a scoped session raised E, the cleanup was
\* executed and the caller receives E itself.
C8_BodyErrorUnmodifiedAsStated ==
    (pc = "done" /\ Session /\ bodyExc # NoExc)
        => (SentBy("cleanup") # <<>> /\ exc = bodyExc)

\* C8 amended: when the body of a scoped session raised E, the first cleanup
\* command is sent; if every cleanup command is accepted the caller receives
\* E itself, and if one fails the caller receives the transport error of
\* that command, which is the last call made, in place of E.
C8_BodyErrorUnlessCleanupFails ==
    (pc = "done" /\ Session /\ bodyExc # NoExc) =>
        LET cl == SentBy("cleanup")
        IN  /\ cl # <<>>
            /\ AllOk(cl) => exc = bodyExc
            /\ ~AllOk(cl) =>
                  /\ exc = [type |-> "TransportError", at |-> Len(sent)]
                  /\ ~sent[Len(sent)].ok
                  /\ exc # bodyExc

\* C8 witness: an analyze session whose body was interrupted restored the
\* analyzer and handed the interrupt to the caller.
C8_Witness ==
    /\ Finished("analyze")
    /\ bodyExc.type = "KeyboardInterrupt"
    /\ SentBy("cleanup") # <<>>
    /\ AllOk(SentBy("cleanup"))
    /\ exc = bodyExc

\* C9: look_at_me, once it has read the brightness and the beeper state,
\* writes both back exactly once on every exit path.
C9_AttentionRestores ==
    (Finished("look_at_me") /\ Entered) =>
        Cmds(SentBy("cleanup")) =
            << ":SYST:BRIG " \o ToString(locals.initial_brightness),
               ":SYST:BEEP " \o (IF locals.initial_beeper THEN "ON" ELSE "OFF") >>

\* C10: output_mode maps the replies CV, CC and UR to ConstantVoltage,
\* ConstantCurrent and Unregulated.
C10_OutputModeDistinct ==
    (Finished("output_mode") /\ sent[1].ok) =>
        /\ reply = "CV" => result = "ConstantVoltage"
        /\ reply = "CC" => result = "ConstantCurrent"
        /\ reply = "UR" => result = "Unregulated"


\* the token list the last response was made of
RepliedTokens == CHOOSE tokens \in CommonReplies : ReplyText(tokens) = reply
TypeName(type) ==
    CASE type = "V" -> "Voltage" [] type = "C" -> "Current" [] type = "P" -> "Power"
\* the entry of channel i after the tokens: the type of the last token
\* tagged CH<i>, unset when there is none
EntryAfter(tokens, i) ==
    LET at == {k \in 1 .. Len(tokens) : tokens[k][1] = i}
    IN  IF at = {} THEN "None"
        ELSE TypeName(tokens[CHOOSE k \in at : \A j \in at : j <= k][2])

\* C11: get_common_measure on a response of blank-separated `CH<i>_<TYPE>`
\* tokens returns the configuration in which each of CH1, CH2, CH3 named by
\* a token has that token's type and the others are unset (`CH1_V CH2_C
\* CH3_P` gives Voltage, Current, Power); a response with a token tagged
\* otherwise (`CH4_V`) raises the assertion error and returns nothing.
C11_CommonMeasureParsed ==
    (Finished("get_common_measure") /\ sent[1].ok) =>
        LET tokens == RepliedTokens
        IN  /\ IF \E k \in 1 .. Len(tokens) : tokens[k][1] \notin {1, 2, 3}
               THEN exc.type = "AssertionError" /\ result = "none"
               ELSE /\ exc = NoExc
                    /\ result = <<EntryAfter(tokens, 1), EntryAfter(tokens, 2),
                                  EntryAfter(tokens, 3)>>
            /\ reply = <<"CH1", "_", "V", " ", "CH2", "_", "C", " ", "CH3", "_", "P">>
                  => (exc = NoExc /\ result = <<"Voltage", "Current", "Power">>)
            /\ reply = <<"CH2", "_", "P">>
                  => (exc = NoExc /\ result = <<"None", "Power", "None">>)
            /\ (\E k \in 1 .. Len(reply) : reply[k] = "CH4")
                  => exc.type = "AssertionError"

\* C11 witness: the response `CH1_V CH2_C CH3_P` was parsed.
C11_Witness ==
    /\ Finished("get_common_measure")
    /\ sent[1].ok
    /\ reply = <<"CH1", "_", "V", " ", "CH2", "_", "C", " ", "CH3", "_", "P">>
    /\ result = <<"Voltage", "Current", "Power">>

\* C11 second witness: the response `CH1_V CH4_V CH2_C` was rejected.
C11_WitnessRejected ==
    /\ Finished("get_common_measure")
    /\ sent[1].ok
    /\ reply = <<"CH1", "_", "V", " ", "CH4", "_", "V", " ", "CH2", "_", "C">>
    /\ exc.type = "AssertionError"
    /\ result = "none"


\* the fields the last handshake response was built from
RepliedHandshake ==
    CHOOSE f \in ErrorFields \X TestFields : HandshakeText(f[1], f[2]) = reply
StaleErrors == RepliedHandshake[1] = <<"-113,\"Undefined header\"">>
FailedSelfTest == RepliedHandshake[2] = <<"1">>
ErrorRecords == SelectSeq(logged, LAMBDA r : r.level = "error")

\* C12: when the handshake response reports a non-clean error queue or a
\* failed self-test, the constructor raises nothing and creates the three
\* channels and the analyzer; each anomaly is reported by one error record
\* of the logger, and a clean field is not reported.
C12_HandshakeAnomaliesLogged ==
    (Finished("__init__") /\ sent[1].ok /\ Len(reply) >= 5) =>
        /\ exc = NoExc
        /\ result = [channels |-> <<1, 2, 3>>, analyzer |-> TRUE]
        /\ ErrorRecords =
              (IF StaleErrors
               THEN <<[level |-> "error", msg |-> "device has remaining errors in queue"]>>
               ELSE <<>>)
              \o (IF FailedSelfTest
                  THEN <<[level |-> "error", msg |-> "device didn't pass self test"]>>
                  ELSE <<>>)

\* C12 witness: stale errors and a failed self-test, instrument constructed.
C12_Witness ==
    /\ Finished("__init__")
    /\ sent[1].ok
    /\ reply = <<"-113,\"Undefined header\"", ";", "MOCK-1", ";", "1">>
    /\ exc = NoExc
    /\ result = [channels |-> <<1, 2, 3>>, analyzer |-> TRUE]
    /\ Len(ErrorRecords) = 2


\* C13: the output setter followed by the output getter, on a transport
\* that answers `:APPL? CH<i>` with `<name>:<mode>,<V>,<I>` built from the
\* `:APPL CH<i>,<V>,<I>` it received, returns the voltage and the current
\* that were set; formatting and parsing the returned values once more
\* gives them again.
C13_OutputRoundTrip ==
    (Finished("output_round_trip") /\ Len(sent) = 2 /\ AllOk(sent)) =>
        /\ exc = NoExc
        /\ result = op.output
        /\ sent[1].cmd = ":APPL CH" \o ToString(op.channel) \o ","
              \o Join("", applied[op.channel][1]) \o ","
              \o Join("", applied[op.channel][2])
        /\ reply[1] = "CH" \o ToString(op.channel)
        /\ ParseFloat(Format3Text(result[1])) = result[1]
        /\ ParseFloat(Format3Text(result[2])) = result[2]

\* C13 witness: 12.345 V and 0.050 A were set and read back.
C13_Witness ==
    /\ Finished("output_round_trip")
    /\ AllOk(sent)
    /\ op.output = <<12345, 50>>
    /\ reply = <<"CH" \o ToString(op.channel), ":", "32V/3A", ",",
                 "1", "2", ".", "3", "4", "5", ",", "0", ".", "0", "5", "0">>
    /\ result = <<12345, 50>>


\* prefix of the protection commands of the session's channel and quantity
ProtPrefix == ":SOURCe[" \o ToString(op.channel) \o "]:" \o op.protecting

\* C14: the setup commands of a run_protected session are, in this order,
\* clear, threshold (the session's level with three decimals) and arm, all
\* sent before anything of the body; an arm command is the third setup
\* command, after an accepted clear and an accepted threshold command, and
\* the body runs only after all three were accepted.
C14_ProtectedSetupOrder ==
    (op.name = "run_protected") =>
        LET setup == SentBy("setup")
            n == Len(setup)
        IN  /\ n <= 3
            /\ SubSeq(sent, 1, n) = setup
            /\ n >= 1 => setup[1].cmd = ProtPrefix \o ":PROT:CLE"
            /\ n >= 2 => /\ setup[2].cmd =
                               ProtPrefix \o ":PROT " \o Expected3(op.level)
                         /\ setup[1].ok
            /\ n >= 3 => /\ setup[3].cmd = ProtPrefix \o ":PROT:STAT ON"
                         /\ setup[2].ok
            /\ \A k \in 1 .. Len(sent) :
                  sent[k].cmd = ProtPrefix \o ":PROT:STAT ON" =>
                      /\ k = 3
                      /\ sent[1].ok /\ sent[2].ok
                      /\ sent[2].cmd =
                            ProtPrefix \o ":PROT " \o Expected3(op.level)
            /\ (pc = "opp_body" \/ SentBy("body") # <<>> \/ bodySteps > 0
                    \/ bodyExc # NoExc) =>
                  (n = 3 /\ AllOk(setup))

\* C14 witness: the body of a session protecting the current of channel 2 at
\* 1.500 is about to run, after exactly the three setup commands.
C14_Witness ==
    /\ op.name = "run_protected"
    /\ pc = "opp_body"
    /\ bodySteps = 0
    /\ Cmds(sent) = <<":SOURCe[2]:CURRent:PROT:CLE",
                      ":SOURCe[2]:CURRent:PROT 1.500",
                      ":SOURCe[2]:CURRent:PROT:STAT ON">>
    /\ AllOk(sent)


IsPrefix(a, b) == Len(a) <= Len(b) /\ a = SubSeq(b, 1, Len(a))

\* the measure-type command each configuration of the inputs calls for
\* (none for a pulse-current configuration without a channel)
ExpectedMeasure ==
    IF op.variant = "pulse"
    THEN CASE op.pulse = <<TRUE, TRUE>> -> <<":ANALyzer:CURRent:MEASure:TYPE CH1,CH2">>
           [] op.pulse = <<TRUE, FALSE>> -> <<":ANALyzer:CURRent:MEASure:TYPE CH1">>
           [] op.pulse = <<FALSE, TRUE>> -> <<":ANALyzer:CURRent:MEASure:TYPE CH2">>
           [] op.pulse = <<FALSE, FALSE>> -> <<>>
    ELSE CASE op.common = <<"V", "C", "P">> ->
                 <<":ANALyzer:COMMon:MEASure:TYPE CH1_V,CH2_C,CH3_P">>
           [] op.common = <<"None", "P", "None">> ->
                 <<":ANALyzer:COMMon:MEASure:TYPE CH2_P">>
           [] op.common = <<"V", "None", "C">> ->
                 <<":ANALyzer:COMMon:MEASure:TYPE CH1_V,CH3_C">>
           [] op.common = <<"None", "None", "None">> ->
                 <<":ANALyzer:COMMon:MEASure:TYPE ">>
ExpectedType ==
    IF op.variant = "pulse" THEN ":ANALyzer:TYPE CURR" ELSE ":ANALyzer:TYPE COM"
\* the commands of the two families
PulseFamily ==
    {":ANALyzer:TYPE CURR", ":ANALyzer:CURRent:MEASure:TYPE CH1,CH2",
     ":ANALyzer:CURRent:MEASure:TYPE CH1", ":ANALyzer:CURRent:MEASure:TYPE CH2",
     ":ANALyzer:CURRent:MEASure:TYPE "}
CommonFamily ==
    {":ANALyzer:TYPE COM", ":ANALyzer:COMMon:MEASure:TYPE CH1_V,CH2_C,CH3_P",
     ":ANALyzer:COMMon:MEASure:TYPE CH2_P",
     ":ANALyzer:COMMon:MEASure:TYPE CH1_V,CH3_C",
     ":ANALyzer:COMMon:MEASure:TYPE "}
\* the setup commands of a complete analyze session
ExpectedSetup ==
    <<":ANALyzer:SAVE:STATe?", ":ANALyzer:STATe?", ExpectedType>>
        \o ExpectedMeasure
        \o (IF op.log THEN <<":ANALyzer:SAVE:STATe 1">> ELSE <<>>)
        \o <<":ANALyzer:STATe 1">>

\* C15: the setup commands of an analyze session are, in this order, the
\* logging query, the active query, the type command of the config's
\* variant, that variant's measure-type command, the logging-enable command
\* exactly when log=True, and `:ANALyzer:STATe 1`; each is sent only after
\* the previous one was accepted, the body runs only after all of them, the
\* activation follows the accepted configuration, and no command of the
\* other variant's family is sent.
C15_AnalyzeSetupOrder ==
    (op.name = "analyze") =>
        LET setup == SentBy("setup")
            n == Len(setup)
        IN  /\ SubSeq(sent, 1, n) = setup
            /\ IF op.variant = "pulse" /\ op.pulse = <<FALSE, FALSE>>
               THEN IsPrefix(Cmds(setup), SubSeq(ExpectedSetup, 1, 3))
               ELSE IsPrefix(Cmds(setup), ExpectedSetup)
            /\ \A k \in 1 .. n - 1 : setup[k].ok
            /\ (pc = "an_body" \/ SentBy("body") # <<>> \/ bodySteps > 0
                    \/ bodyExc # NoExc) =>
                  (Cmds(setup) = ExpectedSetup /\ AllOk(setup))
            /\ \A k \in 1 .. n :
                  setup[k].cmd = ":ANALyzer:STATe 1" =>
                      /\ k >= 5
                      /\ setup[3].cmd = ExpectedType /\ setup[3].ok
                      /\ <<setup[4].cmd>> = ExpectedMeasure /\ setup[4].ok
            /\ \A k \in 1 .. Len(sent) :
                  sent[k].cmd \notin
                      (IF op.variant = "pulse" THEN CommonFamily ELSE PulseFamily)

\* C15 witness: the body of a common session with log=True is about to run
\* after the six setup commands.
C15_Witness ==
    /\ op.name = "analyze"
    /\ pc = "an_body"
    /\ bodySteps = 0
    /\ Cmds(sent) = <<":ANALyzer:SAVE:STATe?", ":ANALyzer:STATe?",
                      ":ANALyzer:TYPE COM",
                      ":ANALyzer:COMMon:MEASure:TYPE CH1_V,CH3_C",
                      ":ANALyzer:SAVE:STATe 1", ":ANALyzer:STATe 1">>
    /\ AllOk(sent)

\* C15 witness: a pulse-current session with log=False activates right after
\* its measure-type command.
C15_WitnessPulse ==
    /\ op.name = "analyze"
    /\ pc = "an_body"
    /\ Cmds(sent) = <<":ANALyzer:SAVE:STATe?", ":ANALyzer:STATe?",
                      ":ANALyzer:TYPE CURR",
                      ":ANALyzer:CURRent:MEASure:TYPE CH2",
                      ":ANALyzer:STATe 1">>
    /\ AllOk(sent)


\* C16: set_common_measure sends `:ANALyzer:TYPE COM` and then, once that
\* was accepted, one `:ANALyzer:COMMon:MEASure:TYPE` command listing
\* `CH<i>_<TYPE>` for the channels that are set, in channel order; nothing
\* else is sent, and without a transport failure no error is raised, also
\* for the configuration without any channel, whose list is empty.
C16_CommonMeasureCommands ==
    (op.name = "set_common_measure") =>
        /\ IsPrefix(Cmds(sent), <<":ANALyzer:TYPE COM">> \o ExpectedMeasure)
        /\ Len(sent) = 2 => sent[1].ok
        /\ (pc = "done" /\ AllOk(sent)) =>
              /\ Len(sent) = 2
              /\ exc = NoExc
              /\ dev.type = "COM"
        /\ (pc = "done" /\ exc # NoExc) =>
              (exc.type = "TransportError" /\ ~sent[Len(sent)].ok)

\* C16 witness: the configuration without any channel produced both
\* commands and no error.
C16_Witness ==
    /\ Finished("set_common_measure")
    /\ op.common = <<"None", "None", "None">>
    /\ exc = NoExc
    /\ Cmds(sent) = <<":ANALyzer:TYPE COM", ":ANALyzer:COMMon:MEASure:TYPE ">>
    /\ AllOk(sent)

\* C16 witness: channel 2 unset, channels 1 and 3 listed in order.
C16_WitnessSkip ==
    /\ Finished("set_common_measure")
    /\ op.common = <<"V", "None", "C">>
    /\ exc = NoExc
    /\ Cmds(sent) = <<":ANALyzer:TYPE COM",
                      ":ANALyzer:COMMon:MEASure:TYPE CH1_V,CH3_C">>


\* operations that select the analysis type (analyze does so through the
\* configuration setter it calls)
ModeSetters == {"set_type", "set_common_measure", "set_current_measure", "analyze"}
\* the type command each mode-selecting statement sends
SelectedTypeCmd ==
    CASE pc = "an_set_type" /\ op.analysis_type = "Common" -> ":ANALyzer:TYPE COM"
      [] pc = "an_set_type" /\ op.analysis_type = "PulseCurrent" -> ":ANALyzer:TYPE CURR"
      [] pc = "com_type" -> ":ANALyzer:TYPE COM"
      [] pc = "scm_type" -> ":ANALyzer:TYPE CURR"
SelectedType ==
    IF SelectedTypeCmd = ":ANALyzer:TYPE COM" THEN "COM" ELSE "CURR"

\* C17: the analysis type of the instrument changes only in a step in which
\* set_type, set_common_measure or set_current_measure (called directly or
\* by analyze) sends a type command that is accepted, and then becomes the
\* type that command names; each of the three sends the command for the type
\* it selects whatever the instrument's type and active state are, and an
\* accepted command leaves the instrument in the selected type; all other
\* operations (get/set of active, log and file, get_type, get_common_measure
\* and the rest) leave the type unchanged.
C17_ModeChangesOnlyBySetters ==
    [][ /\ dev'.type # dev.type =>
              /\ op.name \in ModeSetters
              /\ pc \in {"an_set_type", "com_type", "scm_type"}
              /\ Len(sent') = Len(sent) + 1
              /\ sent'[Len(sent')].ok
              /\ sent'[Len(sent')].cmd = ":ANALyzer:TYPE " \o dev'.type
        /\ pc \in {"an_set_type", "com_type", "scm_type"} =>
              /\ Len(sent') = Len(sent) + 1
              /\ sent'[Len(sent')].cmd = SelectedTypeCmd
              /\ sent'[Len(sent')].ok => dev'.type = SelectedType
              /\ ~sent'[Len(sent')].ok => dev'.type = dev.type
              /\ dev'.active = dev.active
      ]_vars

\* C17 witness: set_type(PulseCurrent) was accepted while the analyzer was
\* active, and the instrument is in the pulse-current type.
C17_Witness ==
    /\ Finished("set_type")
    /\ op.analysis_type = "PulseCurrent"
    /\ Cmds(sent) = <<":ANALyzer:TYPE CURR">>
    /\ sent[1].ok
    /\ exc = NoExc
    /\ dev.active
    /\ dev.type = "CURR"

\* C17 witness: get_type reports the type without changing it.
C17_WitnessGetType ==
    /\ Finished("get_type")
    /\ result = "PulseCurrent"
    /\ dev.type = "CURR"


\* the cleanup command of a run_active or run_protected session
ExpectedCleanup ==
    IF op.name = "run_active"
    THEN ":OUTP CH" \o ToString(op.channel) \o ",OFF"
    ELSE ":SOURCe[" \o ToString(op.channel) \o "]:" \o op.protecting
             \o ":PROT:STAT OFF"
\* a setup command of the session was rejected by the transport
SetupFailed == \E k \in 1 .. Len(sent) : sent[k].by = "setup" /\ ~sent[k].ok

\* C18: in a run_active or run_protected session in which the transport
\* rejected a setup command, the body is never executed, the rejected
\* command is the last setup command (no enable after a rejected set-point
\* write, no arm after a rejected clear or threshold write), the only thing
\* left to do is the cleanup, and the finished session has sent the cleanup
\* command (`:OUTP CH<i>,OFF`, resp. `...PROT:STAT OFF`) exactly once.
C18_SetupFailureSkipsBody ==
    (op.name \in {"run_active", "run_protected"} /\ SetupFailed) =>
        LET setup == SentBy("setup")
            cleanup == SentBy("cleanup")
        IN  /\ SentBy("body") = <<>>
            /\ bodySteps = 0
            /\ bodyExc = NoExc
            /\ pc \in {"ch_disable", "opp_state_off", "done"}
            /\ AllOk(SubSeq(setup, 1, Len(setup) - 1))
            /\ ~setup[Len(setup)].ok
            /\ \A k \in 1 .. Len(sent) :
                  /\ sent[k].cmd # ":OUTP CH" \o ToString(op.channel) \o ",ON"
                        \/ Len(setup) = 2
                  /\ sent[k].cmd # ":SOURCe[" \o ToString(op.channel) \o "]:"
                                      \o op.protecting \o ":PROT:STAT ON"
                        \/ Len(setup) = 3
            /\ sent = setup \o cleanup
            /\ IF pc = "done"
               THEN /\ Len(cleanup) = 1
                    /\ cleanup[1].cmd = ExpectedCleanup
                    /\ exc.type = "TransportError"
               ELSE cleanup = <<>>

\* C18 witness: the set-point write of a run_active session was rejected;
\* the session sent the disable and nothing else.
C18_Witness ==
    /\ Finished("run_active")
    /\ Cmds(sent) = <<":APPL CH1,5.000,1.000", ":OUTP CH1,OFF">>
    /\ ~sent[1].ok
    /\ sent[2].ok
    /\ bodySteps = 0
    /\ exc.type = "TransportError"

\* C18 witness: the threshold write of a run_protected session was rejected;
\* the session sent the disarm without having armed.
C18_WitnessProtected ==
    /\ Finished("run_protected")
    /\ Cmds(sent) = <<":SOURCe[3]:VOLTage:PROT:CLE",
                      ":SOURCe[3]:VOLTage:PROT 30.000",
                      ":SOURCe[3]:VOLTage:PROT:STAT OFF">>
    /\ sent[1].ok
    /\ ~sent[2].ok
    /\ sent[3].ok
    /\ bodySteps = 0


\* an analyze session with a pulse-current configuration without a channel
EmptyPulseSession ==
    op.name = "analyze" /\ op.variant = "pulse" /\ op.pulse = <<FALSE, FALSE>>
\* the restore command for active carrying the value read at session start
ExpectedRestoreActive ==
    IF locals.initial_value_of_self_active
    THEN ":ANALyzer:STATe 1" ELSE ":ANALyzer:STATe 0"

\* C19: an analyze session given a pulse-current configuration with no
\* channel enabled never runs its body and never sends, as a setup step,
\* `:ANALyzer:STATe 1` or the logging-enable command, nor the pulse-current
\* measure-type command at all; once the type command was accepted the
\* AttributeError is raised, the next command is the restore of active with
\* the value read at session start, and the caller receives the
\* AttributeError after it (a transport error only if a restore command was
\* rejected).
C19_EmptyPulseNeverActivates ==
    EmptyPulseSession =>
        LET setup == SentBy("setup")
            cleanup == SentBy("cleanup")
        IN  /\ pc \notin {"scm_send", "an_log_on", "an_active_on", "an_body"}
            /\ SentBy("body") = <<>>
            /\ bodySteps = 0
            /\ \A k \in 1 .. Len(setup) :
                  setup[k].cmd \notin
                      {":ANALyzer:STATe 1", ":ANALyzer:SAVE:STATe 1"}
            /\ \A k \in 1 .. Len(sent) :
                  sent[k].cmd \notin
                      {":ANALyzer:CURRent:MEASure:TYPE ",
                       ":ANALyzer:CURRent:MEASure:TYPE CH1",
                       ":ANALyzer:CURRent:MEASure:TYPE CH2",
                       ":ANALyzer:CURRent:MEASure:TYPE CH1,CH2"}
            /\ (Len(sent) >= 3 /\ sent[3].ok) =>
                  /\ Cmds(setup) = <<":ANALyzer:SAVE:STATe?", ":ANALyzer:STATe?",
                                     ":ANALyzer:TYPE CURR">>
                  /\ exc # NoExc
                  /\ pc \in {"an_restore_active", "an_restore_log", "done"}
                  /\ pc = "an_restore_active" =>
                        (cleanup = <<>> /\ exc.type = "AttributeError")
                  /\ pc # "an_restore_active" =>
                        /\ Len(sent) >= 4
                        /\ sent[4].by = "cleanup"
                        /\ sent[4].cmd = ExpectedRestoreActive
                        /\ sent[4].ok => dev.active = locals.initial_value_of_self_active
                        /\ IF AllOk(cleanup)
                           THEN exc.type = "AttributeError"
                           ELSE exc.type = "TransportError"

\* C19 witness: the session ended with the AttributeError, after restoring
\* active to the value it read (on), without ever activating.
C19_Witness ==
    /\ EmptyPulseSession
    /\ pc = "done"
    /\ ~op.log
    /\ Cmds(sent) = <<":ANALyzer:SAVE:STATe?", ":ANALyzer:STATe?",
                      ":ANALyzer:TYPE CURR", ":ANALyzer:STATe 1">>
    /\ AllOk(sent)
    /\ exc.type = "AttributeError"
    /\ locals.initial_value_of_self_active
    /\ bodySteps = 0

====
